---- MODULE Spec2Model ----
(***************************************************************************)
(* Tempiro dashboard: the SQLite cache (database.py), the incremental sync *)
(* and its threads (app.py) and the backfill command (backfill.py).        *)
(*                                                                         *)
(* A table is the sequence of its rows in rowid order.  The column id      *)
(* (INTEGER PRIMARY KEY AUTOINCREMENT) is kept as that order only: a       *)
(* replaced row leaves its place and the new row is appended, as the new   *)
(* row gets an id above every id handed out before.                        *)
(* The clock (now, the windows of a request) counts whole hours; a         *)
(* calendar day is 24 of them.  The timestamp of a stored row counts        *)
(* quarters of an hour, the interval of the vendor's readings.             *)
(***************************************************************************)
EXTENDS Integers, Sequences, FiniteSets, TLC

VARIABLES
    energy_readings,    \* table energy_readings
    spot_prices,        \* table spot_prices
    sync_status,        \* table sync_status
    now,                \* datetime.now(), in hours
    PRICE_AREA,         \* app.py: config.get("price_area", "SE3")
    _token_cache,       \* app.py: the token cache of the service
    _last_sync,         \* app.py: last sync time and success per sync type
    _sync_thread,       \* app.py: the background thread, or None
    pc,                 \* where each thread of the service is
    loc,                \* the local variables of each thread
    backfill_token_cache,   \* backfill.py: the token cache of the command
    cli,                \* backfill.py: where the command is, its arguments and its local variables
    txn,                \* database.py: the connection of a save that is between get_connection() and its end
    lastUpsert,         \* history: (device_id, timestamp) -> current_value of the latest committed upsert
    replacedKey,        \* history: key whose value the latest save_energy_readings changed, or <<>>
    saveRun,            \* history: the current run of identical save_energy_readings calls
    lastPriceUpsert     \* history: (timestamp, price_area) -> SEK_per_kWh of the latest committed upsert, and how often in a row

storeVars == <<energy_readings, spot_prices, sync_status>>
histVars == <<lastUpsert, replacedKey, saveRun, lastPriceUpsert>>
appVars == <<PRICE_AREA, _token_cache, _last_sync, _sync_thread, pc, loc>>
cliVars == <<backfill_token_cache, cli>>
connVars == <<txn>>
vars == <<energy_readings, spot_prices, sync_status, now, PRICE_AREA, _token_cache, _last_sync,
          _sync_thread, pc, loc, backfill_token_cache, cli, txn, lastUpsert, replacedKey, saveRun,
          lastPriceUpsert>>

-----------------------------------------------------------------------------
(* Bounds of the model *)

MaxLen == 2          \* longest batch the store driver passes to a save call
MaxRuns == 2         \* times the backfill command is run
MaxReps == 2         \* identical consecutive calls counted by saveRun
MaxSleepTime == 1    \* hours that pass while the background thread sleeps
MaxDays == 2         \* largest --days of the backfill command
MaxChunkDays == 1    \* largest --chunk-days of the backfill command

(* Program constants *)

TokenLifetime == 144 \* timedelta(days=6), in hours
SyncPeriod == 1      \* time.sleep(3600), in hours
QuartersPerHour == 4 \* intervalMinutes=15: timestamps of readings in one hour
HoursPerDay == 24    \* hours of a calendar date

(* Data *)

None == "None"                       \* Python None / SQL NULL in a text column
NULL == <<>>                         \* SQL NULL in a time column; a time v is <<v>>
DeviceIds == {"d1", "d2"}
DeviceNames == {"Pump"}
Timestamps == {0, 1}                 \* DateTime of a reading
Powers == {1000}                     \* CurrentValue, watts (a reading without it is stored as 0)
Deltas == {5}                        \* DeltaPower
Accs == {9}                          \* AccumulatedValue
PriceAreas == {"SE3", "SE4"}
PriceHours == {0, 1}                 \* time_start of a price
PricesSek == {1, 2}                  \* SEK_per_kWh of the feed

\* A raw reading of the vendor: a JSON object.  CurrentValue may be missing
\* (r.get("CurrentValue", 0)); an object without DateTime makes r["DateTime"]
\* raise KeyError.
FullReadings == [DateTime : Timestamps, DeltaPower : Deltas, AccumulatedValue : Accs, CurrentValue : Powers]
NoPowerReadings == [DateTime : Timestamps, DeltaPower : Deltas, AccumulatedValue : Accs]
BadReadings == [DeltaPower : Deltas, AccumulatedValue : Accs]

\* A raw price of the feed.
FullPrices == [time_start : PriceHours, SEK_per_kWh : PricesSek]
BadPrices == [SEK_per_kWh : PricesSek]
Prices == FullPrices \cup BadPrices

SeqsUpTo(S, n) == UNION {[1..k -> S] : k \in 0..n}

-----------------------------------------------------------------------------
(* database.py *)

\* A fault of the schema: UNIQUE(device_id, timestamp, current_value).
EnergyConflictWithValue(old, new) ==
    /\ old.device_id = new.device_id
    /\ old.timestamp = new.timestamp
    /\ old.current_value = new.current_value

\* UNIQUE(device_id, timestamp); both columns are NOT NULL.
EnergyConflict(old, new) ==
    old.device_id = new.device_id /\ old.timestamp = new.timestamp

\* A fault of the schema: UNIQUE(timestamp).
PriceConflictTimestampOnly(old, new) ==
    old.timestamp = new.timestamp

\* UNIQUE(timestamp, price_area); both columns are NOT NULL.
PriceConflict(old, new) ==
    old.timestamp = new.timestamp /\ old.price_area = new.price_area

\* UNIQUE(sync_type, device_id) with device_id nullable: in SQLite two NULLs
\* are distinct in a UNIQUE constraint, so rows with a NULL device_id never conflict.
StatusConflict(old, new) ==
    /\ old.sync_type = new.sync_type
    /\ old.device_id # None
    /\ new.device_id # None
    /\ old.device_id = new.device_id

\* The UNIQUE constraint of each table.
Conflict(unique, old, new) ==
    CASE unique = "energy_readings" -> EnergyConflict(old, new)
      [] unique = "spot_prices" -> PriceConflict(old, new)
      [] unique = "sync_status" -> StatusConflict(old, new)

\* Two faults of the upsert: a plain INSERT into a table without the UNIQUE
\* constraint, and INSERT OR IGNORE.
InsertPlain(table, row, unique) ==
    table \o <<row>>
InsertOrIgnore(table, row, unique) ==
    IF \E i \in DOMAIN table : Conflict(unique, table[i], row) THEN table ELSE table \o <<row>>

\* A fault of the upsert: the table is emptied before the row is added.
InsertAfterDelete(table, row, unique) ==
    <<row>>

\* INSERT OR REPLACE of one row into a table: the rows that conflict with it
\* under the table's UNIQUE constraint are deleted, the row is added.
InsertOrReplace(table, row, unique) ==
    SelectSeq(table, LAMBDA old : ~Conflict(unique, old, row)) \o <<row>>

EnergyRow(device_id, device_name, r) ==
    [device_id |-> device_id,
     device_name |-> device_name,
     timestamp |-> r.DateTime,
     delta_power |-> r.DeltaPower,
     accumulated_value |-> r.AccumulatedValue,
     current_value |-> IF "CurrentValue" \in DOMAIN r THEN r.CurrentValue ELSE 0]

PriceRow(p, price_area) ==
    [timestamp |-> p.time_start,
     price_area |-> price_area,
     price_sek |-> p.SEK_per_kWh * 100,
     price_eur |-> IF "EUR_per_kWh" \in DOMAIN p THEN <<p.EUR_per_kWh>> ELSE NULL]

\* The element that makes the loop of a save raise KeyError.
ReadingOk(r) == {"DateTime", "DeltaPower", "AccumulatedValue"} \subseteq DOMAIN r
PriceOk(p) == {"time_start", "SEK_per_kWh"} \subseteq DOMAIN p

RECURSIVE UpsertEnergy(_, _, _, _)
UpsertEnergy(table, device_id, device_name, readings) ==
    IF readings = <<>> THEN table
    ELSE UpsertEnergy(
            InsertOrReplace(table, EnergyRow(device_id, device_name, Head(readings)), "energy_readings"),
            device_id, device_name, Tail(readings))

RECURSIVE UpsertPrices(_, _, _)
UpsertPrices(table, prices, price_area) ==
    IF prices = <<>> THEN table
    ELSE UpsertPrices(
            InsertOrReplace(table, PriceRow(Head(prices), price_area), "spot_prices"),
            Tail(prices), price_area)

\* No save is under way.
NoTxn == [state |-> "none", kind |-> None, key |-> <<>>, batch |-> <<>>, i |-> 0,
          pending |-> <<>>, before |-> <<>>]

\* What a save does when it is called: io is what SQLite answers ("ok", or
\* "error" for sqlite3.OperationalError: database is locked, disk I/O error).
\* A save that raises has not committed: the connection is dropped and its
\* transaction rolled back.
IoOutcomes == {"ok", "error"}
SaveEnergyRaises(readings, io) == io # "ok" \/ (\E i \in DOMAIN readings : ~ReadingOk(readings[i]))
SavePricesRaises(prices, io) == io # "ok" \/ (\E i \in DOMAIN prices : ~PriceOk(prices[i]))

\* A save that raises after its first INSERT never reaches conn.close(): its
\* connection stays open, with the write transaction of the batch, until the
\* garbage collector frees it (the rows are then rolled back).  Until then
\* every other connection's write ends in "database is locked".
EnergyTxnLeftOpen(readings, io) ==
    /\ io = "ok"
    /\ readings # <<>>
    /\ ReadingOk(readings[1])
    /\ \E i \in DOMAIN readings : ~ReadingOk(readings[i])
PricesTxnLeftOpen(prices, io) ==
    /\ io = "ok"
    /\ prices # <<>>
    /\ PriceOk(prices[1])
    /\ \E i \in DOMAIN prices : ~PriceOk(prices[i])

save_energy_readings(device_id, device_name, readings, io) ==
    energy_readings' =
        IF SaveEnergyRaises(readings, io) THEN energy_readings
        ELSE UpsertEnergy(energy_readings, device_id, device_name, readings)

save_spot_prices(prices, price_area, io) ==
    spot_prices' =
        IF SavePricesRaises(prices, io) THEN spot_prices
        ELSE UpsertPrices(spot_prices, prices, price_area)

update_sync_status(sync_type, device_id, oldest_data, io) ==
    sync_status' =
        IF io # "ok" THEN sync_status
        ELSE InsertOrReplace(sync_status,
                [sync_type |-> sync_type, device_id |-> device_id,
                 last_sync |-> now, oldest_data |-> oldest_data],
                "sync_status")

\* The two saves statement by statement.  sqlite3 opens a transaction before
\* the first INSERT of a connection and the rows of the connection stay its
\* own until conn.commit(): another connection reads the committed table.
\* txn.kind is the table, txn.key the arguments besides the batch, txn.i the
\* next element of the loop, txn.pending the table as the connection of the
\* save sees it, txn.before (history) the table when the save began.

\* A fault: a connection in autocommit mode, every INSERT visible at once.
ReadUncommitted(committed, pending) == pending

\* What the other connections read while the transaction is open.
ReadCommitted(committed, pending) == committed

TableOf(kind) == IF kind = "energy_readings" THEN energy_readings ELSE spot_prices

\* conn = get_connection(); cursor = conn.cursor()
SaveBegin(kind, key, batch) ==
    /\ txn.state = "none"
    /\ txn' = [state |-> "loop", kind |-> kind, key |-> key, batch |-> batch, i |-> 1,
               pending |-> TableOf(kind), before |-> TableOf(kind)]
    /\ UNCHANGED <<storeVars, now, appVars, histVars, cliVars>>

\* One iteration of the loop: cursor.execute(INSERT OR REPLACE ...), or the
\* KeyError of a malformed element, which ends the save before conn.commit()
\* and conn.close(): after a first INSERT the connection stays open with its
\* transaction until the garbage collector frees it.
SaveExecute ==
    /\ txn.state = "loop"
    /\ txn.i <= Len(txn.batch)
    /\ LET el == txn.batch[txn.i]
           energy == txn.kind = "energy_readings"
           ok == IF energy THEN ReadingOk(el) ELSE PriceOk(el)
           row == IF energy THEN EnergyRow(txn.key[1], txn.key[2], el) ELSE PriceRow(el, txn.key[1])
           pending == InsertOrReplace(txn.pending, row, txn.kind)
       IN  IF ok
           THEN /\ txn' = [txn EXCEPT !.i = @ + 1, !.pending = pending]
                /\ energy_readings' = IF energy THEN ReadCommitted(energy_readings, pending) ELSE energy_readings
                /\ spot_prices' = IF energy THEN spot_prices ELSE ReadCommitted(spot_prices, pending)
           ELSE /\ txn' = IF txn.i > 1 THEN [txn EXCEPT !.state = "lingering"] ELSE NoTxn
                /\ UNCHANGED <<energy_readings, spot_prices>>
    /\ UNCHANGED <<sync_status, now, appVars, histVars, cliVars>>

\* conn.commit(); conn.close()
SaveCommit ==
    /\ txn.state = "loop"
    /\ txn.i > Len(txn.batch)
    /\ energy_readings' = IF txn.kind = "energy_readings" THEN txn.pending ELSE energy_readings
    /\ spot_prices' = IF txn.kind = "spot_prices" THEN txn.pending ELSE spot_prices
    /\ txn' = NoTxn
    /\ UNCHANGED <<sync_status, now, appVars, histVars, cliVars>>

\* The garbage collector frees the connection of a failed save: its
\* transaction is rolled back.
CollectGarbage ==
    /\ txn.state = "lingering"
    /\ txn' = NoTxn
    /\ UNCHANGED <<storeVars, now, appVars, histVars, cliVars>>

\* ORDER BY timestamp ASC; rows of equal timestamp stay in rowid order.
RECURSIVE OrderByTimestamp(_)
OrderByTimestamp(rows) ==
    IF rows = <<>> THEN <<>>
    ELSE LET sorted == OrderByTimestamp(SubSeq(rows, 1, Len(rows) - 1))
             last == rows[Len(rows)]
         IN  SelectSeq(sorted, LAMBDA x : x.timestamp <= last.timestamp)
             \o <<last>>
             \o SelectSeq(sorted, LAMBDA x : x.timestamp > last.timestamp)

\* from_date and to_date are NULL (None) or <<time>>.
get_energy_readings(device_id, from_date, to_date) ==
    OrderByTimestamp(SelectSeq(energy_readings, LAMBDA r :
        /\ device_id # None => r.device_id = device_id
        /\ from_date # NULL => r.timestamp >= from_date[1]
        /\ to_date # NULL => r.timestamp <= to_date[1]))

\* The default of the parameter price_area of save_spot_prices and get_spot_prices.
DefaultPriceArea == "SE3"

\* SELECT * FROM spot_prices WHERE price_area = ? ... ORDER BY timestamp ASC
get_spot_prices(from_date, to_date, price_area) ==
    OrderByTimestamp(SelectSeq(spot_prices, LAMBDA p :
        /\ p.price_area = price_area
        /\ from_date # NULL => p.timestamp >= from_date[1]
        /\ to_date # NULL => p.timestamp <= to_date[1]))

\* strftime('%Y-%m-%d %H:00:00', timestamp) and date(timestamp)
HourOf(timestamp) == timestamp \div QuartersPerHour
DateOf(timestamp) == timestamp \div (HoursPerDay * QuartersPerHour)

\* The price area the two aggregates are written for: p.price_area = 'SE3'.
StatsPriceArea == "SE3"

\* The rows of FROM energy_readings e LEFT JOIN spot_prices p ON (same hour
\* AND p.price_area = 'SE3') WHERE ...: a pair <<i, j>> is the reading of
\* rowid order i with the price of rowid order j, or with no price (j = 0)
\* when no price row matches it.
HourlyJoinOn(readings, prices, i, j) ==
    /\ HourOf(readings[i].timestamp) = HourOf(prices[j].timestamp)
    /\ prices[j].price_area = StatsPriceArea

\* A fault of the join: INNER JOIN, which drops the readings without a price.
LeftJoinInner(readings, prices, device_id, from_date, to_date) ==
    {x \in (DOMAIN readings) \X (DOMAIN prices) :
        /\ device_id # None => readings[x[1]].device_id = device_id
        /\ from_date # NULL => readings[x[1]].timestamp >= from_date[1]
        /\ to_date # NULL => readings[x[1]].timestamp <= to_date[1]
        /\ HourlyJoinOn(readings, prices, x[1], x[2])}

LeftJoin(readings, prices, device_id, from_date, to_date) ==
    {x \in (DOMAIN readings) \X (0..Len(prices)) :
        /\ device_id # None => readings[x[1]].device_id = device_id
        /\ from_date # NULL => readings[x[1]].timestamp >= from_date[1]
        /\ to_date # NULL => readings[x[1]].timestamp <= to_date[1]
        /\ IF x[2] = 0
           THEN \A j \in DOMAIN prices : ~HourlyJoinOn(readings, prices, x[1], j)
           ELSE HourlyJoinOn(readings, prices, x[1], x[2])}

\* SUM(e.current_value) over joined rows
RECURSIVE SumCurrentValue(_, _)
SumCurrentValue(readings, joined) ==
    IF joined = {} THEN 0
    ELSE LET x == CHOOSE y \in joined : TRUE
         IN  readings[x[1]].current_value + SumCurrentValue(readings, joined \ {x})

\* The rows get_hourly_stats may return: one per (hour, device_id) of the
\* joined rows.  Numbers are kept exact, as numerators:
\*   energy_kwh  SUM(e.current_value * 0.25) / 1000, over 4000;
\*   cost_sek    energy_kwh * COALESCE(p.price_sek, 0) / 100, over 400000;
\*   active_ratio  AVG(CASE ...) as <<sum, count>>.
\* e.device_name and p.price_sek are bare columns of an aggregate query:
\* SQLite takes them from one joined row of the group, which one is not
\* defined; the set holds a row for every joined row they can come from.
HourlyStats(readings, prices, device_id, from_date, to_date) ==
    LET joined == LeftJoin(readings, prices, device_id, from_date, to_date)
        GroupOf(x) == {y \in joined :
                        /\ HourOf(readings[y[1]].timestamp) = HourOf(readings[x[1]].timestamp)
                        /\ readings[y[1]].device_id = readings[x[1]].device_id}
        price_sek(x) == IF x[2] = 0 THEN NULL ELSE <<prices[x[2]].price_sek>>
    IN  {[hour |-> HourOf(readings[x[1]].timestamp),
          device_id |-> readings[x[1]].device_id,
          device_name |-> readings[x[1]].device_name,
          energy_kwh |-> SumCurrentValue(readings, GroupOf(x)),
          active_ratio |-> <<Cardinality({y \in GroupOf(x) : readings[y[1]].current_value > 0}),
                             Cardinality(GroupOf(x))>>,
          spot_price_ore |-> price_sek(x),
          cost_sek |-> SumCurrentValue(readings, GroupOf(x))
                        * (IF price_sek(x) = NULL THEN 0 ELSE price_sek(x)[1])]
         : x \in joined}

get_hourly_stats(device_id, from_date, to_date) ==
    HourlyStats(energy_readings, spot_prices, device_id, from_date, to_date)

\* SUM(price_sek) over a set of price rows
RECURSIVE SumPriceSek(_, _)
SumPriceSek(prices, rows) ==
    IF rows = {} THEN 0
    ELSE LET j == CHOOSE k \in rows : TRUE
         IN  prices[j].price_sek + SumPriceSek(prices, rows \ {j})

\* The rows get_daily_summary may return: one per (date, device_id) of the
\* readings.  from_date and to_date are NULL or <<date>>: a timestamp is
\* >= a date from the start of that date on, and <= date + "T23:59:59" to
\* the end of that date.  energy_kwh is kept as in HourlyStats; cost_sek is
\* energy_kwh * avg_price / 100 with avg_price = AVG(price_sek) of the date,
\* kept as <<numerator, count>> (over 400000), and <<0, 1>> for a date
\* without a price (prices_by_date.get(date, 0) or 0).  device_name is a
\* bare column, as in HourlyStats.
DailySummary(readings, prices, device_id, from_date, to_date) ==
    LET selected == {x \in (DOMAIN readings) \X {0} :
                        /\ device_id # None => readings[x[1]].device_id = device_id
                        /\ from_date # NULL => DateOf(readings[x[1]].timestamp) >= from_date[1]
                        /\ to_date # NULL => DateOf(readings[x[1]].timestamp) <= to_date[1]}
        GroupOf(x) == {y \in selected :
                        /\ DateOf(readings[y[1]].timestamp) = DateOf(readings[x[1]].timestamp)
                        /\ readings[y[1]].device_id = readings[x[1]].device_id}
        price_rows(date) == {j \in DOMAIN prices :
                        /\ prices[j].price_area = StatsPriceArea
                        /\ from_date # NULL => DateOf(prices[j].timestamp) >= from_date[1]
                        /\ to_date # NULL => DateOf(prices[j].timestamp) <= to_date[1]
                        /\ DateOf(prices[j].timestamp) = date}
        energy_kwh(x) == SumCurrentValue(readings, GroupOf(x))
        cost_sek(x) ==
            LET rows == price_rows(DateOf(readings[x[1]].timestamp))
            IN  IF rows = {} THEN <<0, 1>>
                ELSE <<energy_kwh(x) * SumPriceSek(prices, rows), Cardinality(rows)>>
    IN  {[date |-> DateOf(readings[x[1]].timestamp),
          device_id |-> readings[x[1]].device_id,
          device_name |-> readings[x[1]].device_name,
          energy_kwh |-> energy_kwh(x),
          hours_with_data |-> Cardinality({HourOf(readings[y[1]].timestamp) % HoursPerDay : y \in GroupOf(x)}),
          cost_sek |-> cost_sek(x)]
         : x \in selected}

get_daily_summary(device_id, from_date, to_date) ==
    DailySummary(energy_readings, spot_prices, device_id, from_date, to_date)

-----------------------------------------------------------------------------
(* The vendor and the price feed, as the service sees them *)

R0 == [DateTime |-> 0, DeltaPower |-> 5, AccumulatedValue |-> 9, CurrentValue |-> 1000]
R0n == [DateTime |-> 0, DeltaPower |-> 5, AccumulatedValue |-> 9]
R1 == [DateTime |-> 1, DeltaPower |-> 5, AccumulatedValue |-> 9, CurrentValue |-> 1000]
P0 == [time_start |-> 0, SEK_per_kWh |-> 1]
P1 == [time_start |-> 1, SEK_per_kWh |-> 2]
Pbad == [SEK_per_kWh |-> 1]
Rbad == [DeltaPower |-> 5, AccumulatedValue |-> 9]

Device(d) == [Id |-> d, Name |-> "Pump"]
DeviceLists ==
    {<<>>} \cup {<<Device(d)>> : d \in DeviceIds}
           \cup {<<Device(d), Device(e)>> : <<d, e>> \in {x \in DeviceIds \X DeviceIds : x[1] # x[2]}}

\* What the callers of the vendor and of the feed can be answered.
Environment ==
    [deviceLists |-> DeviceLists,
     batches |-> {<<>>, <<R0>>, <<R0n, R1>>},
     failures |-> {TRUE, FALSE},
     statuses |-> {200, 404, 500},
     priceBatches |-> {<<>>, <<P0>>},
     io |-> IoOutcomes]

\* The same with a vendor and a feed that always answer, and always the same.
SteadyEnvironment ==
    [deviceLists |-> {<<Device("d1")>>},
     batches |-> {<<R0>>},
     failures |-> {FALSE},
     statuses |-> {200},
     priceBatches |-> {<<P0>>},
     io |-> {"ok"}]

\* One device and one answer of each kind, with every failure: of the vendor,
\* of the feed and of the store.
FlakyEnvironment ==
    [deviceLists |-> {<<Device("d1")>>},
     batches |-> {<<R0>>},
     failures |-> {TRUE, FALSE},
     statuses |-> {200, 404, 500},
     priceBatches |-> {<<P0>>},
     io |-> IoOutcomes]

\* Two devices, a vendor that may fail and may answer a chunk whose last
\* reading has no DateTime, and a store that is healthy: no write fails by
\* itself.
MalformedEnvironment ==
    [deviceLists |-> {<<Device("d1"), Device("d2")>>},
     batches |-> {<<>>, <<R0, R1>>, <<R0, R1, Rbad>>},
     failures |-> {TRUE, FALSE},
     statuses |-> {200, 404},
     priceBatches |-> {<<P0>>},
     io |-> {"ok"}]

\* One device and one answer of each kind, a vendor that may fail, a
\* healthy feed and a healthy store.
TokenEnvironment ==
    [deviceLists |-> {<<Device("d1")>>},
     batches |-> {<<R0>>},
     failures |-> {TRUE, FALSE},
     statuses |-> {200},
     priceBatches |-> {<<P0>>},
     io |-> {"ok"}]

\* requests.get/post: {ok, body}; ok is FALSE for a connection error, a timeout,
\* a status raise_for_status rejects, or a body that is not the expected JSON.
Responses(env, bodies) ==
    {[ok |-> TRUE, body |-> b] : b \in bodies}
    \cup {[ok |-> FALSE, body |-> <<>>] : f \in env.failures \ {FALSE}}

\* requests.get of the price feed: an exception, or a status and a body.
FeedResponses(env) ==
    {[raised |-> TRUE, status |-> 0, body |-> <<>>] : f \in env.failures \ {FALSE}}
    \cup {[raised |-> FALSE, status |-> 200, body |-> b] : b \in env.priceBatches}
    \cup {[raised |-> FALSE, status |-> c, body |-> <<>>] : c \in env.statuses \ {200}}

-----------------------------------------------------------------------------
(* app.py *)

Threads == {"main", "bg", "req"}
Tokens == {"tok1", "tok2"}           \* access_token values the vendor issues
NoToken == [token |-> None, expires |-> NULL]
NeverSynced == [energy |-> NULL, prices |-> NULL, energy_success |-> FALSE, prices_success |-> FALSE]
LocInit ==
    [site |-> "none",        \* the call that asks for the token: api_get of "devices" or "values", api_put of "switch"
     tnow |-> 0,             \* now of get_token
     token |-> None,         \* token of api_get
     devices |-> <<>>,       \* devices of sync_energy_data
     i |-> 0,                \* index of device in devices; index of days_ago in range(-1, 3)
     total_saved |-> 0,
     errors |-> 0,
     wake |-> 0,             \* end of time.sleep
     fetched |-> [d \in DeviceIds |-> "none"],   \* history: how the interval fetch of each device ended in this pass
     values |-> [d \in DeviceIds |-> <<>>],      \* history: the values fetched for each device in this pass
     storeFailed |-> FALSE,  \* history: a save raised in this pass
     savedAny |-> FALSE,     \* history: this pass committed at least one row
     all404 |-> FALSE,       \* history: every day of this price pass answered 404
     wrote |-> FALSE,        \* history: this pass wrote to the store or to _last_sync
     outcome |-> "none"]     \* history: "returned" or "raised", how the sync function ended

InitApp ==
    /\ PRICE_AREA \in PriceAreas
    /\ _token_cache = NoToken
    /\ _last_sync = NeverSynced
    /\ _sync_thread = None
    /\ pc = [t \in Threads |-> CASE t = "main" -> "main_start" [] t = "bg" -> "unborn" [] OTHER -> "req_idle"]
    /\ loc = [t \in Threads |-> LocInit]


InPass == {"api_get", "token_post", "requests_get", "se_finish", "se_done",
           "sp_fetch", "sp_finish", "sp_done"}

\* range(-1, 3)
DaysAgo == <<-1, 0, 1, 2>>

\* d hours pass, up to the hour limit.
Tick(d, limit) ==
    /\ now + d <= limit
    /\ now' = now + d
    /\ UNCHANGED <<storeVars, appVars, histVars, connVars, cliVars>>

\* __main__: start_background_sync()
start_background_sync(t) ==
    /\ t = "main"
    /\ pc[t] = "main_start"
    /\ IF _sync_thread = None
       THEN /\ _sync_thread' = "bg"
            /\ pc' = [pc EXCEPT ![t] = "main_initial", !["bg"] = "bg_loop"]
       ELSE /\ pc' = [pc EXCEPT ![t] = "main_initial"]
            /\ UNCHANGED _sync_thread
    /\ UNCHANGED <<storeVars, now, PRICE_AREA, _token_cache, _last_sync, loc, histVars, connVars, cliVars>>

\* The call of sync_energy_data: by __main__, by background_sync_loop, and by
\* manual_sync once app.run serves requests.  The function starts with
\* api_get("/api/devices").
sync_energy_data(t) ==
    /\ \/ t = "main" /\ pc[t] = "main_initial"
       \/ t = "bg" /\ pc[t] = "bg_loop"
       \/ t = "req" /\ pc[t] = "req_idle" /\ pc["main"] = "serving"
    /\ pc' = [pc EXCEPT ![t] = "api_get"]
    /\ loc' = [loc EXCEPT ![t] = [LocInit EXCEPT !.site = "devices"]]
    /\ UNCHANGED <<storeVars, now, PRICE_AREA, _token_cache, _last_sync, _sync_thread, histVars, connVars, cliVars>>

\* A fault of the error handling: neither sync_energy_data nor the loop
\* catches, and the exception ends the thread.
SyncEnergyUncaught(t, l) ==
    /\ _last_sync' = _last_sync
    /\ pc' = [pc EXCEPT ![t] = "dead"]
    /\ loc' = [loc EXCEPT ![t] = [l EXCEPT !.outcome = "raised"]]

\* A fault of the handler: the failed pass stamps the time as well.
SyncEnergyFailedStamped(t, l) ==
    /\ _last_sync' = [_last_sync EXCEPT !.energy = <<now>>, !.energy_success = FALSE]
    /\ pc' = [pc EXCEPT ![t] = "se_done"]
    /\ loc' = [loc EXCEPT ![t] = [l EXCEPT !.site = "none", !.token = None, !.tnow = 0,
                                           !.total_saved = 0, !.wrote = TRUE, !.outcome = "returned"]]

\* except Exception of sync_energy_data
SyncEnergyFailed(t, l) ==
    /\ _last_sync' = [_last_sync EXCEPT !.energy_success = FALSE]
    /\ pc' = [pc EXCEPT ![t] = "se_done"]
    /\ loc' = [loc EXCEPT ![t] = [l EXCEPT !.site = "none", !.token = None, !.tnow = 0,
                                           !.total_saved = 0, !.wrote = TRUE, !.outcome = "returned"]]

\* switch_device: api_put raised, the route answers 502
SwitchFailed(t) ==
    /\ pc' = [pc EXCEPT ![t] = "req_idle"]
    /\ loc' = [loc EXCEPT ![t] = LocInit]
    /\ UNCHANGED _last_sync

\* A fault of the cache test: the expiry is not looked at.
TokenValidNoExpiry(cache, at) ==
    cache.token # None

TokenValid(cache, at) ==
    cache.token # None /\ cache.expires # NULL /\ at < cache.expires[1]

\* api_get, up to the return of a cached token or to the POST of get_token
get_token(t) ==
    /\ pc[t] = "api_get"
    /\ IF TokenValid(_token_cache, now)
       THEN /\ pc' = [pc EXCEPT ![t] = "requests_get"]
            /\ loc' = [loc EXCEPT ![t].token = _token_cache.token]
       ELSE /\ pc' = [pc EXCEPT ![t] = "token_post"]
            /\ loc' = [loc EXCEPT ![t].tnow = now]
    /\ UNCHANGED <<storeVars, now, PRICE_AREA, _token_cache, _last_sync, _sync_thread, histVars, connVars, cliVars>>

\* A fault of get_token: a failed exchange empties the cache.
token_post_clearing(t, env) ==
    /\ pc[t] = "token_post"
    /\ \E resp \in Responses(env, Tokens) :
        IF resp.ok
        THEN /\ _token_cache' = [token |-> resp.body, expires |-> <<loc[t].tnow + TokenLifetime>>]
             /\ pc' = [pc EXCEPT ![t] = "requests_get"]
             /\ loc' = [loc EXCEPT ![t].token = resp.body, ![t].tnow = 0]
             /\ UNCHANGED _last_sync
        ELSE /\ IF loc[t].site = "switch" THEN SwitchFailed(t) ELSE SyncEnergyFailed(t, loc[t])
             /\ _token_cache' = NoToken
    /\ UNCHANGED <<storeVars, now, PRICE_AREA, _sync_thread, histVars, connVars, cliVars>>

\* get_token: the answer to requests.post(TEMPIRO_BASE/Token)
token_post(t, env) ==
    /\ pc[t] = "token_post"
    /\ \E resp \in Responses(env, Tokens) :
        IF resp.ok
        THEN /\ _token_cache' = [token |-> resp.body, expires |-> <<loc[t].tnow + TokenLifetime>>]
             /\ pc' = [pc EXCEPT ![t] = "requests_get"]
             /\ loc' = [loc EXCEPT ![t].token = resp.body, ![t].tnow = 0]
             /\ UNCHANGED _last_sync
        ELSE /\ IF loc[t].site = "switch" THEN SwitchFailed(t) ELSE SyncEnergyFailed(t, loc[t])
             /\ UNCHANGED _token_cache
    /\ UNCHANGED <<storeVars, now, PRICE_AREA, _sync_thread, histVars, connVars, cliVars>>

\* The head of "for device in devices", entered with the locals l.
NextDevice(t, l) ==
    IF l.i > Len(l.devices)
    THEN /\ pc' = [pc EXCEPT ![t] = "se_finish"]
         /\ loc' = [loc EXCEPT ![t] = [l EXCEPT !.site = "none", !.token = None]]
    ELSE /\ pc' = [pc EXCEPT ![t] = "api_get"]
         /\ loc' = [loc EXCEPT ![t] = [l EXCEPT !.site = "values", !.token = None]]

\* api_get("/api/devices"): the answer to requests.get
get_devices(t, env) ==
    /\ pc[t] = "requests_get"
    /\ loc[t].site = "devices"
    /\ \E resp \in Responses(env, env.deviceLists) :
        IF resp.ok
        THEN /\ NextDevice(t, [loc[t] EXCEPT !.devices = resp.body, !.i = 1])
             /\ UNCHANGED _last_sync
        ELSE SyncEnergyFailed(t, loc[t])
    /\ UNCHANGED <<storeVars, now, PRICE_AREA, _token_cache, _sync_thread, histVars, connVars, cliVars>>

\* api_get("/api/Values/{device_id}/interval..."): the answer to requests.get,
\* and the rest of the loop body
get_values(t, env) ==
    /\ pc[t] = "requests_get"
    /\ loc[t].site = "values"
    /\ \E resp \in Responses(env, env.batches), io \in env.io :
        LET device == loc[t].devices[loc[t].i]
            values == resp.body
            l == loc[t]
        IN  IF ~resp.ok
            THEN /\ SyncEnergyFailed(t, [l EXCEPT !.fetched[device.Id] = "fail"])
                 /\ UNCHANGED energy_readings
            ELSE IF values = <<>>
            THEN /\ NextDevice(t, [l EXCEPT !.fetched[device.Id] = "ok", !.i = @ + 1])
                 /\ UNCHANGED <<energy_readings, _last_sync>>
            ELSE /\ save_energy_readings(device.Id, device.Name, values, io)
                 /\ IF SaveEnergyRaises(values, io)
                    THEN SyncEnergyFailed(t, [l EXCEPT !.fetched[device.Id] = "ok", !.values[device.Id] = values,
                                                         !.storeFailed = TRUE])
                    ELSE /\ NextDevice(t, [l EXCEPT !.fetched[device.Id] = "ok", !.values[device.Id] = values,
                                                    !.i = @ + 1,
                                                    !.total_saved = @ + Len(values),
                                                    !.savedAny = TRUE, !.wrote = TRUE])
                         /\ UNCHANGED _last_sync
    /\ UNCHANGED <<spot_prices, sync_status, now, PRICE_AREA, _token_cache, _sync_thread, histVars, connVars, cliVars>>

\* A fault of sync_energy_data: success only when the pass saved a reading,
\* as sync_spot_prices has it.
SyncEnergySucceededIfSaved(t) ==
    /\ pc[t] = "se_finish"
    /\ _last_sync' = IF loc[t].total_saved > 0
                     THEN [_last_sync EXCEPT !.energy = <<now>>, !.energy_success = TRUE]
                     ELSE [_last_sync EXCEPT !.energy_success = FALSE]
    /\ pc' = [pc EXCEPT ![t] = "se_done"]
    /\ loc' = [loc EXCEPT ![t].wrote = TRUE, ![t].outcome = "returned"]
    /\ UNCHANGED <<storeVars, now, PRICE_AREA, _token_cache, _sync_thread, histVars, connVars, cliVars>>

\* sync_energy_data after the loop: the pass succeeded
SyncEnergySucceeded(t) ==
    /\ pc[t] = "se_finish"
    /\ _last_sync' = [_last_sync EXCEPT !.energy = <<now>>, !.energy_success = TRUE]
    /\ pc' = [pc EXCEPT ![t] = "se_done"]
    /\ loc' = [loc EXCEPT ![t].wrote = TRUE, ![t].outcome = "returned"]
    /\ UNCHANGED <<storeVars, now, PRICE_AREA, _token_cache, _sync_thread, histVars, connVars, cliVars>>

\* The call of sync_spot_prices, which every caller makes after sync_energy_data
sync_spot_prices(t) ==
    /\ pc[t] = "se_done"
    /\ pc' = [pc EXCEPT ![t] = "sp_fetch"]
    /\ loc' = [loc EXCEPT ![t] = [LocInit EXCEPT !.i = 1, !.all404 = TRUE]]
    /\ UNCHANGED <<storeVars, now, PRICE_AREA, _token_cache, _last_sync, _sync_thread, histVars, connVars, cliVars>>

\* One iteration of "for days_ago in range(-1, 3)"
FetchPriceDay(t, env) ==
    /\ pc[t] = "sp_fetch"
    /\ \E resp \in FeedResponses(env), io \in env.io :
        LET l == [loc[t] EXCEPT !.i = @ + 1,
                                !.all404 = @ /\ ~resp.raised /\ resp.status = 404]
            saveRaises == SavePricesRaises(resp.body, io)
        IN  /\ IF ~resp.raised /\ resp.status = 200
               THEN /\ save_spot_prices(resp.body, PRICE_AREA, io)
                    /\ loc' = [loc EXCEPT ![t] =
                                IF saveRaises
                                THEN [l EXCEPT !.errors = @ + 1, !.storeFailed = TRUE]
                                ELSE [l EXCEPT !.total_saved = @ + Len(resp.body),
                                               !.savedAny = @ \/ resp.body # <<>>,
                                               !.wrote = @ \/ resp.body # <<>>]]
               ELSE /\ UNCHANGED spot_prices
                    /\ loc' = [loc EXCEPT ![t] =
                                IF resp.raised \/ resp.status # 404
                                THEN [l EXCEPT !.errors = @ + 1]
                                ELSE l]
            /\ pc' = [pc EXCEPT ![t] = IF l.i > Len(DaysAgo) THEN "sp_finish" ELSE "sp_fetch"]
    /\ UNCHANGED <<energy_readings, sync_status, now, PRICE_AREA, _token_cache, _last_sync,
                   _sync_thread, histVars, connVars, cliVars>>

\* A fault of sync_spot_prices: success when no fetch counted as an error.
PricesSucceededNoErrors(total_saved, errors) == errors = 0

\* The condition under which sync_spot_prices reports success
PricesSucceeded(total_saved, errors) == total_saved > 0

\* sync_spot_prices after the loop
SyncPricesFinish(t) ==
    /\ pc[t] = "sp_finish"
    /\ _last_sync' = IF PricesSucceeded(loc[t].total_saved, loc[t].errors)
                     THEN [_last_sync EXCEPT !.prices = <<now>>, !.prices_success = TRUE]
                     ELSE [_last_sync EXCEPT !.prices_success = FALSE]
    /\ pc' = [pc EXCEPT ![t] = "sp_done"]
    /\ loc' = [loc EXCEPT ![t].wrote = TRUE, ![t].outcome = "returned"]
    /\ UNCHANGED <<storeVars, now, PRICE_AREA, _token_cache, _sync_thread, histVars, connVars, cliVars>>

\* The return of sync_spot_prices to its caller: __main__ goes on to app.run,
\* background_sync_loop to time.sleep(3600), manual_sync to its response.
ReturnToCaller(t) ==
    /\ pc[t] = "sp_done"
    /\ pc' = [pc EXCEPT ![t] = CASE t = "main" -> "serving"
                                 [] t = "bg" -> "bg_sleep"
                                 [] OTHER -> "req_idle"]
    /\ loc' = [loc EXCEPT ![t] = [LocInit EXCEPT !.wake = IF t = "bg" THEN now + SyncPeriod ELSE 0]]
    /\ UNCHANGED <<storeVars, now, PRICE_AREA, _token_cache, _last_sync, _sync_thread, histVars, connVars, cliVars>>

\* background_sync_loop: the end of time.sleep(3600)
WakeUp(t) ==
    /\ t = "bg"
    /\ pc[t] = "bg_sleep"
    /\ now >= loc[t].wake
    /\ pc' = [pc EXCEPT ![t] = "bg_loop"]
    /\ loc' = [loc EXCEPT ![t] = LocInit]
    /\ UNCHANGED <<storeVars, now, PRICE_AREA, _token_cache, _last_sync, _sync_thread, histVars, connVars, cliVars>>

\* The route PUT /api/devices/<device_id>/switch, served once app.run
\* serves requests: the call of api_put, which starts with get_token()
switch_device(t) ==
    /\ t = "req"
    /\ pc[t] = "req_idle"
    /\ pc["main"] = "serving"
    /\ pc' = [pc EXCEPT ![t] = "api_get"]
    /\ loc' = [loc EXCEPT ![t] = [LocInit EXCEPT !.site = "switch"]]
    /\ UNCHANGED <<storeVars, now, PRICE_AREA, _token_cache, _last_sync, _sync_thread, histVars, connVars, cliVars>>

\* api_put: the answer to requests.put, and the answer of the route
api_put(t, env) ==
    /\ pc[t] = "requests_get"
    /\ loc[t].site = "switch"
    /\ \E resp \in Responses(env, {<<>>}) :
        /\ pc' = [pc EXCEPT ![t] = "req_idle"]
        /\ loc' = [loc EXCEPT ![t] = LocInit]
    /\ UNCHANGED <<storeVars, now, PRICE_AREA, _token_cache, _last_sync, _sync_thread, histVars, connVars, cliVars>>

SwitchStep(t, env) ==
    \/ switch_device(t)
    \/ api_put(t, env)

\* The route /api/stats/price-history: database.get_spot_prices(from_date, to_date).
price_history(from_date, to_date) ==
    get_spot_prices(from_date, to_date, DefaultPriceArea)

ThreadStep(t, env) ==
    \/ start_background_sync(t)
    \/ sync_energy_data(t)
    \/ get_token(t)
    \/ token_post(t, env)
    \/ get_devices(t, env)
    \/ get_values(t, env)
    \/ SyncEnergySucceeded(t)
    \/ sync_spot_prices(t)
    \/ FetchPriceDay(t, env)
    \/ SyncPricesFinish(t)
    \/ ReturnToCaller(t)
    \/ WakeUp(t)

-----------------------------------------------------------------------------
(* backfill.py *)

Day == 24                            \* timedelta(days=1), in hours
RecentHours == 24                    \* sync_recent_data(hours=24)
BackfillPriceArea == "SE3"           \* save_spot_prices(prices): the default price_area
NoChunk == [path |-> "none", values |-> <<>>, saved |-> FALSE, written |-> <<>>]
CliInit ==
    [pc |-> "exit",
     runs |-> 0,             \* history: times the command was started
     prices_only |-> FALSE, days |-> 0, chunk_days |-> 0,   \* args, as far as they are read after main()
     end_date |-> 0, start_date |-> 0,
     current |-> 0,          \* current of backfill_spot_prices; offset of sync_recent_data
     devices |-> <<>>,
     i |-> 0,                \* index of device in devices
     current_start |-> 0,
     chunk |-> NoChunk,      \* history: the latest chunk fetched, and what was passed to save_energy_readings
     windows |-> <<>>,       \* history: <<first day, last day>> of each interval request for the current device
     lingering |-> FALSE]    \* a connection of this process was left open inside a write transaction

InitCli ==
    /\ backfill_token_cache = NoToken
    /\ cli = CliInit

Min(a, b) == IF a < b THEN a ELSE b

\* The calendar day of a time: strftime("%Y-%m-%d") of from_str and to_str
DayOf(t) == t \div Day

\* A fault of the chunk loop: the next chunk starts where this one ended.
NextStartAtEnd(current_end) == current_end

\* current_start = current_end + timedelta(days=1)
NextStart(current_end) == current_end + Day

\* api_get of backfill.py: get_token, then requests.get.  tokenResp answers
\* the POST of get_token if the cache holds no valid token, resp the GET.
CliApiOk(tokenResp, resp) ==
    /\ TokenValid(backfill_token_cache, now) \/ tokenResp.ok
    /\ resp.ok
CliGetToken(tokenResp) ==
    backfill_token_cache' =
        IF ~TokenValid(backfill_token_cache, now) /\ tokenResp.ok
        THEN [token |-> tokenResp.body, expires |-> <<now + TokenLifetime>>]
        ELSE backfill_token_cache

\* A write of the command while a connection lingers: the collector has
\* freed the connection by then (gc), or the write waits 5 s and raises.
GcChoices(c) == IF c.lingering THEN BOOLEAN ELSE {FALSE}
WriteOutcome(c, gc, io) == IF c.lingering /\ ~gc THEN "error" ELSE io

\* fetch_spot_prices_for_date: [] for a 404, and for anything that raises
fetch_spot_prices_for_date(resp) ==
    IF ~resp.raised /\ resp.status = 200 THEN resp.body ELSE <<>>

\* backfill_energy_data: the values of a chunk that are saved
values_to_save(values) ==
    IF Len(values) > 1 THEN Tail(values) ELSE values

\* The command ends: it returned, or an exception reached the top.
\* (total_saved of the three functions is only printed and is left out.)
CliExit(c) == [CliInit EXCEPT !.runs = c.runs]

\* main(): parse_args and the call of the first function.  --status only
\* reads the store.
main(env) ==
    /\ cli.pc = "exit"
    /\ cli.runs < MaxRuns
    /\ \E sync \in BOOLEAN, prices_only \in BOOLEAN, energy_only \in BOOLEAN,
          days \in 0..MaxDays, chunk_days \in 0..MaxChunkDays :
        LET c == [CliInit EXCEPT !.runs = cli.runs + 1, !.prices_only = prices_only, !.days = days,
                                 !.chunk_days = chunk_days, !.end_date = now]
        IN  cli' = IF sync
                   THEN [c EXCEPT !.pc = "recent_prices", !.start_date = now - RecentHours, !.current = 0]
                   ELSE IF ~energy_only
                   THEN [c EXCEPT !.pc = "prices", !.start_date = now - days * Day,
                                  !.current = now - days * Day]
                   ELSE IF ~prices_only
                   THEN [c EXCEPT !.pc = "devices"]
                   ELSE c
    /\ backfill_token_cache' = NoToken
    /\ UNCHANGED <<storeVars, now, appVars, histVars, connVars>>

\* backfill_spot_prices: one iteration of "while current <= end_date"
BackfillPricesDay(env) ==
    /\ cli.pc = "prices"
    /\ cli.current <= cli.end_date
    /\ \E resp \in FeedResponses(env), io0 \in env.io, gc \in GcChoices(cli) :
        LET prices == fetch_spot_prices_for_date(resp)
            io == WriteOutcome(cli, gc, io0)
        IN  IF prices # <<>>
            THEN /\ save_spot_prices(prices, BackfillPriceArea, io)
                 /\ cli' = IF SavePricesRaises(prices, io)
                           THEN CliExit(cli)
                           ELSE [cli EXCEPT !.current = @ + Day, !.lingering = FALSE]
            ELSE /\ cli' = [cli EXCEPT !.current = @ + Day]
                 /\ UNCHANGED spot_prices
    /\ UNCHANGED <<energy_readings, sync_status, now, appVars, histVars, connVars, backfill_token_cache>>

\* backfill_spot_prices after the loop, and what main() calls next
BackfillPricesDone(env) ==
    /\ cli.pc = "prices"
    /\ ~(cli.current <= cli.end_date)
    /\ \E io0 \in env.io, gc \in GcChoices(cli) :
        LET io == WriteOutcome(cli, gc, io0)
        IN  /\ update_sync_status("spot_prices", None, <<cli.start_date>>, io)
            /\ cli' = IF io # "ok" \/ cli.prices_only
                      THEN CliExit(cli)
                      ELSE [cli EXCEPT !.pc = "devices", !.lingering = FALSE]
    /\ UNCHANGED <<energy_readings, spot_prices, now, appVars, histVars, connVars, backfill_token_cache>>

\* backfill_energy_data: get_devices(), and the head of the device loop
BackfillGetDevices(env) ==
    /\ cli.pc = "devices"
    /\ \E tokenResp \in Responses(env, Tokens), resp \in Responses(env, env.deviceLists) :
        /\ CliGetToken(tokenResp)
        /\ cli' = IF ~CliApiOk(tokenResp, resp) \/ resp.body = <<>>
                  THEN CliExit(cli)
                  ELSE [cli EXCEPT !.pc = "chunk", !.devices = resp.body, !.i = 1,
                                   !.end_date = now,
                                   !.start_date = now - cli.days * Day,
                                   !.current_start = now - cli.days * Day]
    /\ UNCHANGED <<storeVars, now, appVars, histVars, connVars>>

\* backfill_energy_data: one iteration of "while current_start < end_date"
BackfillChunk(env) ==
    /\ cli.pc = "chunk"
    /\ cli.current_start < cli.end_date
    /\ \E tokenResp \in Responses(env, Tokens), resp \in Responses(env, env.batches),
          io0 \in env.io, gc \in GcChoices(cli) :
        LET device == cli.devices[cli.i]
            current_end == Min(cli.current_start + cli.chunk_days * Day, cli.end_date)
            values == resp.body
            io == WriteOutcome(cli, gc, io0)
            c == [cli EXCEPT !.current_start = NextStart(current_end),
                             !.windows = Append(@, <<DayOf(cli.current_start), DayOf(current_end)>>)]
        IN  /\ CliGetToken(tokenResp)
            /\ IF CliApiOk(tokenResp, resp) /\ values # <<>>
               THEN /\ save_energy_readings(device.Id, device.Name, values_to_save(values), io)
                    /\ cli' = [c EXCEPT
                                !.chunk = [path |-> "backfill", values |-> values,
                                           saved |-> ~SaveEnergyRaises(values_to_save(values), io),
                                           written |-> values_to_save(values)],
                                !.lingering = (cli.lingering /\ ~gc)
                                              \/ EnergyTxnLeftOpen(values_to_save(values), io)]
               ELSE /\ cli' = [c EXCEPT !.chunk = NoChunk]
                    /\ UNCHANGED energy_readings
    /\ UNCHANGED <<spot_prices, sync_status, now, appVars, histVars, connVars>>

\* backfill_energy_data after the chunks of a device, and the next device
BackfillDeviceDone(env) ==
    /\ cli.pc = "chunk"
    /\ ~(cli.current_start < cli.end_date)
    /\ \E io0 \in env.io, gc \in GcChoices(cli) :
        LET io == WriteOutcome(cli, gc, io0)
        IN  /\ update_sync_status("energy", cli.devices[cli.i].Id, <<cli.start_date>>, io)
            /\ cli' = IF io # "ok" \/ cli.i = Len(cli.devices)
                      THEN CliExit(cli)
                      ELSE [cli EXCEPT !.i = @ + 1, !.current_start = cli.start_date,
                                       !.windows = <<>>, !.lingering = FALSE]
    /\ UNCHANGED <<energy_readings, spot_prices, now, appVars, histVars, connVars, backfill_token_cache>>

\* sync_recent_data: one iteration of "for offset in [0, 1]"
RecentPricesDay(env) ==
    /\ cli.pc = "recent_prices"
    /\ \E resp \in FeedResponses(env), io0 \in env.io, gc \in GcChoices(cli) :
        LET prices == fetch_spot_prices_for_date(resp)
            io == WriteOutcome(cli, gc, io0)
            c == IF cli.current = 1 THEN [cli EXCEPT !.pc = "recent_devices", !.current = 0]
                                    ELSE [cli EXCEPT !.current = 1]
        IN  IF prices # <<>>
            THEN /\ save_spot_prices(prices, BackfillPriceArea, io)
                 /\ cli' = IF SavePricesRaises(prices, io) THEN CliExit(cli)
                           ELSE [c EXCEPT !.lingering = FALSE]
            ELSE /\ cli' = c
                 /\ UNCHANGED spot_prices
    /\ UNCHANGED <<energy_readings, sync_status, now, appVars, histVars, connVars, backfill_token_cache>>

\* sync_recent_data: get_devices()
RecentGetDevices(env) ==
    /\ cli.pc = "recent_devices"
    /\ \E tokenResp \in Responses(env, Tokens), resp \in Responses(env, env.deviceLists) :
        /\ CliGetToken(tokenResp)
        /\ cli' = IF ~CliApiOk(tokenResp, resp)
                  THEN CliExit(cli)
                  ELSE [cli EXCEPT !.pc = IF resp.body = <<>> THEN "recent_done" ELSE "recent_device",
                                   !.devices = resp.body, !.i = 1]
    /\ UNCHANGED <<storeVars, now, appVars, histVars, connVars>>

\* sync_recent_data: one iteration of "for device in devices"
RecentDevice(env) ==
    /\ cli.pc = "recent_device"
    /\ \E tokenResp \in Responses(env, Tokens), resp \in Responses(env, env.batches),
          io0 \in env.io, gc \in GcChoices(cli) :
        LET device == cli.devices[cli.i]
            values == resp.body
            io == WriteOutcome(cli, gc, io0)
            c == [cli EXCEPT !.i = @ + 1,
                             !.pc = IF cli.i = Len(cli.devices) THEN "recent_done" ELSE @]
        IN  /\ CliGetToken(tokenResp)
            /\ IF CliApiOk(tokenResp, resp) /\ values # <<>> /\ Len(values) > 1
               THEN /\ save_energy_readings(device.Id, device.Name, Tail(values), io)
                    /\ cli' = [c EXCEPT !.chunk = [path |-> "recent", values |-> values,
                                                   saved |-> ~SaveEnergyRaises(Tail(values), io),
                                                   written |-> Tail(values)],
                                        !.lingering = (cli.lingering /\ ~gc)
                                                      \/ EnergyTxnLeftOpen(Tail(values), io)]
               ELSE /\ cli' = [c EXCEPT !.chunk =
                                IF CliApiOk(tokenResp, resp)
                                THEN [path |-> "recent", values |-> values, saved |-> FALSE, written |-> <<>>]
                                ELSE NoChunk]
                    /\ UNCHANGED energy_readings
    /\ UNCHANGED <<spot_prices, sync_status, now, appVars, histVars, connVars>>

\* sync_recent_data after the loop
RecentDone(env) ==
    /\ cli.pc = "recent_done"
    /\ \E io0 \in env.io, gc \in GcChoices(cli) :
        /\ update_sync_status("recent_sync", None, NULL, WriteOutcome(cli, gc, io0))
        /\ cli' = CliExit(cli)
    /\ UNCHANGED <<energy_readings, spot_prices, now, appVars, histVars, connVars, backfill_token_cache>>

CliStep(env) ==
    \/ main(env)
    \/ BackfillPricesDay(env)
    \/ BackfillPricesDone(env)
    \/ BackfillGetDevices(env)
    \/ BackfillChunk(env)
    \/ BackfillDeviceDone(env)
    \/ RecentPricesDay(env)
    \/ RecentGetDevices(env)
    \/ RecentDevice(env)
    \/ RecentDone(env)

Init ==
    /\ energy_readings = <<>>
    /\ spot_prices = <<>>
    /\ sync_status = <<>>
    /\ now = 0
    /\ InitApp
    /\ InitCli
    /\ txn = NoTxn
    /\ lastUpsert = [k \in DeviceIds \X Timestamps |-> <<>>]
    /\ replacedKey = <<>>
    /\ saveRun = [args |-> <<>>, n |-> 0, once |-> <<>>]
    /\ lastPriceUpsert = [k \in PriceHours \X PriceAreas |-> <<>>]

\* The start with the configuration's default price area.
InitDefaultArea == Init /\ PRICE_AREA = "SE3"

\* The service with its sync passes one after the other: a thread takes a
\* step only while no other thread is inside a pass, and time passes while
\* the background thread sleeps.
Next ==
    \/ pc["bg"] = "bg_sleep" /\ Tick(SyncPeriod, MaxSleepTime)
    \/ \E t \in Threads :
        /\ \A u \in Threads \ {t} : pc[u] \notin InPass
        /\ ThreadStep(t, Environment)

Spec == Init /\ [][Next]_vars

\* The service with its threads interleaved at will, against a vendor and a
\* feed that always answer.
NextThreads ==
    \/ pc["bg"] = "bg_sleep" /\ Tick(SyncPeriod, MaxSleepTime)
    \/ \E t \in Threads : ThreadStep(t, SteadyEnvironment)

SpecThreads == Init /\ [][NextThreads]_vars

\* The start of the service (the initial sync of __main__ and the background
\* loop, interleaved) against a vendor, a feed and a store that may fail at
\* every call.
\* Every network call ends (it answers or it raises), the background thread
\* is scheduled, and time passes while it sleeps.
NextLoop ==
    \/ pc["bg"] = "bg_sleep" /\ Tick(SyncPeriod, MaxSleepTime)
    \/ \E t \in {"main", "bg"} : ThreadStep(t, FlakyEnvironment)

FairLoop ==
    /\ WF_vars(pc["bg"] = "bg_sleep" /\ Tick(SyncPeriod, MaxSleepTime))
    /\ WF_vars(ThreadStep("bg", FlakyEnvironment))

SpecLoop == InitDefaultArea /\ [][NextLoop]_vars /\ FairLoop

\* The service over the lifetime of a token: passes one after the other,
\* the switch route besides the manual sync, and a sleep of the background
\* thread that lasts an hour or the lifetime of a token.
TokenHorizon == TokenLifetime + MaxSleepTime

NextToken ==
    \/ pc["bg"] = "bg_sleep" /\ Tick(SyncPeriod, MaxSleepTime)
    \/ pc["bg"] = "bg_sleep" /\ Tick(TokenLifetime, TokenHorizon)
    \/ \E t \in Threads :
        /\ \A u \in Threads \ {t} : pc[u] \notin InPass
        /\ (ThreadStep(t, TokenEnvironment) \/ SwitchStep(t, TokenEnvironment))

SpecToken == InitDefaultArea /\ [][NextToken]_vars

\* The backfill command alone, run any number of times.
NextCli == CliStep(Environment)

SpecCli == InitDefaultArea /\ [][NextCli]_vars

\* The backfill command against a healthy store and a vendor that may fail
\* or answer a malformed reading.
NextBackfill == CliStep(MalformedEnvironment)

SpecBackfill == InitDefaultArea /\ [][NextBackfill]_vars

\* The two processes that exchange credentials, each with its own token
\* cache: either the service runs, over the lifetime of a token, or the
\* backfill command does.
NextGetToken ==
    \/ cli.runs = 0 /\ NextToken
    \/ InitApp /\ now = 0 /\ NextBackfill

SpecGetToken == InitDefaultArea /\ [][NextGetToken]_vars

\* The same, with the command going on once it is started: every call it
\* waits for ends (the requests have timeouts of 10 to 180 s, SQLite waits
\* 5 s for a lock, time.sleep(2) ends), so a step that is possible is taken.
FairBackfill == WF_vars(cli.pc # "exit" /\ NextBackfill)
SpecBackfillFair == InitDefaultArea /\ [][NextBackfill]_vars /\ FairBackfill

-----------------------------------------------------------------------------
(* The store driver: any caller of save_energy_readings *)

Max(S) == CHOOSE x \in S : \A y \in S : y <= x
Keys == DeviceIds \X Timestamps

StoredValue(table, key) ==
    {table[i].current_value : i \in {j \in DOMAIN table :
        table[j].device_id = key[1] /\ table[j].timestamp = key[2]}}

\* current_value the call writes last for a timestamp of its batch
LastWritten(readings, ts) ==
    LET r == readings[Max({i \in DOMAIN readings : readings[i].DateTime = ts})]
    IN  IF "CurrentValue" \in DOMAIN r THEN r.CurrentValue ELSE 0

BatchTimestamps(readings) == {readings[i].DateTime : i \in DOMAIN readings}

\* The batches a caller passes: the loop of the save reads the elements in
\* order and raises at the first one without DateTime, so what follows that
\* element is never read.
Batches ==
    SeqsUpTo(FullReadings \cup NoPowerReadings, MaxLen)
    \cup {Append(s, r) : s \in SeqsUpTo(FullReadings \cup NoPowerReadings, MaxLen - 1), r \in BadReadings}

CallSaveEnergyReadings ==
    \E device_id \in DeviceIds, device_name \in DeviceNames,
       readings \in Batches, io \in {"ok"} :
        /\ save_energy_readings(device_id, device_name, readings, io)
        /\ UNCHANGED <<spot_prices, sync_status, now, appVars, cliVars, connVars, lastPriceUpsert>>
        /\ IF SaveEnergyRaises(readings, io)
           THEN UNCHANGED <<lastUpsert, replacedKey, saveRun>>
           ELSE LET changed == {ts \in BatchTimestamps(readings) :
                                    /\ StoredValue(energy_readings, <<device_id, ts>>) # {}
                                    /\ LastWritten(readings, ts) \notin StoredValue(energy_readings, <<device_id, ts>>)}
                    args == <<device_id, device_name, readings>>
                IN  /\ lastUpsert' = [k \in Keys |->
                            IF k[1] = device_id /\ k[2] \in BatchTimestamps(readings)
                            THEN <<LastWritten(readings, k[2])>> ELSE lastUpsert[k]]
                    /\ replacedKey' = IF changed = {} THEN <<>> ELSE <<device_id, Max(changed)>>
                    /\ saveRun' = IF saveRun.args = args
                                  THEN [saveRun EXCEPT !.n = IF @ < MaxReps THEN @ + 1 ELSE @]
                                  ELSE [args |-> args, n |-> 1, once |-> energy_readings']

NextStore == CallSaveEnergyReadings
SpecStore == InitDefaultArea /\ [][NextStore]_vars

\* Any caller of the two saves, followed statement by statement.  A save
\* that begins while the connection of a failed save still holds the write
\* lock raises "database is locked" at its first INSERT and changes nothing.
TxnEnergyBatches == {<<>>, <<R0>>, <<R0n, R1>>, <<R0, R1, Rbad>>, <<Rbad, R1>>}
TxnPriceBatches == {<<P0>>, <<P0, P1>>, <<P1, Pbad>>, <<Pbad>>}

NextTxn ==
    \/ \E device_id \in DeviceIds, device_name \in DeviceNames, readings \in TxnEnergyBatches :
            SaveBegin("energy_readings", <<device_id, device_name>>, readings)
    \/ \E price_area \in PriceAreas, prices \in TxnPriceBatches :
            SaveBegin("spot_prices", <<price_area>>, prices)
    \/ SaveExecute
    \/ SaveCommit
    \/ CollectGarbage

SpecTxn == InitDefaultArea /\ [][NextTxn]_vars

-----------------------------------------------------------------------------
(* The price store driver: any caller of save_spot_prices *)

PriceKeys == PriceHours \X PriceAreas

\* SEK_per_kWh the call writes last for a time_start of its batch
LastPriceWritten(prices, ts) ==
    prices[Max({i \in DOMAIN prices : prices[i].time_start = ts})].SEK_per_kWh

PriceBatchTimestamps(prices) == {prices[i].time_start : i \in DOMAIN prices}

\* The batches a caller passes: the loop of the save raises at the first
\* element without time_start, so what follows that element is never read.
PriceBatches ==
    SeqsUpTo(FullPrices, MaxLen)
    \cup {Append(s, p) : s \in SeqsUpTo(FullPrices, MaxLen - 1), p \in BadPrices}

CallSaveSpotPrices ==
    \E prices \in PriceBatches, price_area \in PriceAreas, io \in {"ok"} :
        /\ save_spot_prices(prices, price_area, io)
        /\ UNCHANGED <<energy_readings, sync_status, now, appVars, cliVars, connVars,
                       lastUpsert, replacedKey, saveRun>>
        /\ lastPriceUpsert' =
            IF SavePricesRaises(prices, io) THEN lastPriceUpsert
            ELSE [k \in PriceKeys |->
                    IF k[2] = price_area /\ k[1] \in PriceBatchTimestamps(prices)
                    THEN LET sek == LastPriceWritten(prices, k[1])
                             old == lastPriceUpsert[k]
                         IN  [sek |-> sek,
                              n |-> IF old # <<>> /\ old.sek = sek
                                    THEN (IF old.n < MaxReps THEN old.n + 1 ELSE old.n)
                                    ELSE 1]
                    ELSE lastPriceUpsert[k]]

NextPrices == CallSaveSpotPrices
SpecPrices == InitDefaultArea /\ [][NextPrices]_vars

-----------------------------------------------------------------------------
(* The statistics driver: the stores the aggregates are asked about *)

\* Readings of two quarters of hour 0, of hour 1 (without CurrentValue) and
\* of hour 0 of the next date; prices of two quarters of hour 0 and of hour 0
\* of the next date.
StatReadings ==
    {[DateTime |-> 0, DeltaPower |-> 5, AccumulatedValue |-> 9, CurrentValue |-> 1000],
     [DateTime |-> 1, DeltaPower |-> 5, AccumulatedValue |-> 9, CurrentValue |-> 600],
     [DateTime |-> QuartersPerHour, DeltaPower |-> 5, AccumulatedValue |-> 9],
     [DateTime |-> HoursPerDay * QuartersPerHour, DeltaPower |-> 5, AccumulatedValue |-> 9, CurrentValue |-> 200]}
StatPrices ==
    {[time_start |-> 0, SEK_per_kWh |-> 1],
     [time_start |-> 1, SEK_per_kWh |-> 2],
     [time_start |-> HoursPerDay * QuartersPerHour, SEK_per_kWh |-> 1]}

\* The callers save in the order of the keys: a device after the other, an
\* area after the other, and each in the order of time.
StatsSaveReading ==
    \E device_id \in DeviceIds, r \in StatReadings :
        /\ \A i \in DOMAIN energy_readings :
            \/ energy_readings[i].device_id = device_id /\ energy_readings[i].timestamp < r.DateTime
            \/ energy_readings[i].device_id = "d1" /\ device_id = "d2"
        /\ save_energy_readings(device_id, "Pump", <<r>>, "ok")
        /\ UNCHANGED <<spot_prices, sync_status, now, appVars, histVars, connVars, cliVars>>

StatsSavePrice ==
    \E price_area \in PriceAreas, p \in StatPrices :
        /\ \A j \in DOMAIN spot_prices :
            \/ spot_prices[j].price_area = price_area /\ spot_prices[j].timestamp < p.time_start
            \/ spot_prices[j].price_area = "SE3" /\ price_area = "SE4"
        /\ save_spot_prices(<<p>>, price_area, "ok")
        /\ UNCHANGED <<energy_readings, sync_status, now, appVars, histVars, connVars, cliVars>>

NextStats == StatsSaveReading \/ StatsSavePrice
SpecStats == InitDefaultArea /\ [][NextStats]_vars

-----------------------------------------------------------------------------
(* Claims about the energy_readings table *)

RowsWithKey(rows, key) ==
    {i \in DOMAIN rows : rows[i].device_id = key[1] /\ rows[i].timestamp = key[2]}

\* C2: in every reachable state the table energy_readings holds at most one
\* row per (device_id, timestamp), whatever save_energy_readings calls were made.
C2_OneRowPerKey ==
    \A key \in Keys : Cardinality(RowsWithKey(energy_readings, key)) <= 1

\* C2 witness: a batch that names one timestamp twice has been saved into a
\* table that holds rows of both devices.
C2_Witness ==
    /\ saveRun.n >= 1
    /\ Len(saveRun.args[3]) = 2
    /\ saveRun.args[3][1].DateTime = saveRun.args[3][2].DateTime
    /\ \A d \in DeviceIds : \E i \in DOMAIN energy_readings : energy_readings[i].device_id = d

\* C3: after N >= 1 consecutive calls of save_energy_readings with the same
\* device and the same batch, the table holds exactly the rows (same number,
\* same content, same order) it held after the first of them.
C3_SaveIdempotent ==
    saveRun.n >= 1 => energy_readings = saveRun.once

\* C3 witness: the same non-empty batch has been saved at least twice in a
\* row, into a table that also holds other rows.
C3_Witness ==
    /\ saveRun.n >= 2
    /\ Len(saveRun.args[3]) >= 1
    /\ Len(energy_readings) > Cardinality(BatchTimestamps(saveRun.args[3]))

\* C4: for every key that was ever upserted, get_energy_readings returns
\* exactly one row of that key, and the row carries the current_value of the
\* most recent upsert of the key.
C4_LastWriteWins ==
    \A key \in Keys :
        lastUpsert[key] # <<>> =>
            LET one == get_energy_readings(key[1], <<key[2]>>, <<key[2]>>)
                all == get_energy_readings(None, NULL, NULL)
            IN  /\ Len(one) = 1
                /\ one[1].current_value = lastUpsert[key][1]
                /\ Cardinality(RowsWithKey(all, key)) = 1

\* C4 witness: the latest save wrote, for a key already stored, a
\* current_value other than the stored one.
C4_Witness ==
    /\ replacedKey # <<>>
    /\ Len(get_energy_readings(replacedKey[1], <<replacedKey[2]>>, <<replacedKey[2]>>)) = 1

-----------------------------------------------------------------------------
(* Claims about the sync passes of the service *)

HasRowOf(device_id, r) ==
    \E i \in DOMAIN energy_readings :
        /\ energy_readings[i].device_id = device_id
        /\ energy_readings[i].timestamp = r.DateTime

\* C1: when sync_energy_data has ended, and in that pass the interval fetch
\* of one device failed and the fetch of another device succeeded, then the
\* readings fetched for the succeeding device are in energy_readings and
\* energy_success is not False.
C1_DeviceFailureIsolated ==
    \A t \in Threads :
        (/\ pc[t] = "se_done"
         /\ \E a \in DeviceIds : loc[t].fetched[a] = "fail"
         /\ \E b \in DeviceIds : loc[t].fetched[b] = "ok")
        => /\ \A b \in DeviceIds :
                loc[t].fetched[b] = "ok" =>
                    \A i \in DOMAIN loc[t].values[b] : HasRowOf(b, loc[t].values[b][i])
           /\ _last_sync.energy_success # FALSE

C8_StorageErrorPropagates ==
    \A t \in Threads :
        (pc[t] \in {"se_done", "sp_done"} /\ loc[t].storeFailed)
        => loc[t].outcome = "raised"

\* C9: at most one thread of the service is inside the credential exchange
\* of get_token at any time.
C9_OneTokenExchange ==
    Cardinality({t \in Threads : pc[t] = "token_post"}) <= 1

\* C10: no two threads of the service are inside a sync pass at the same
\* time, each having written to the store or to _last_sync in that pass.
C10_SingleWriter ==
    \A t, u \in Threads :
        (t # u /\ pc[t] \in InPass /\ pc[u] \in InPass)
        => ~(loc[t].wrote /\ loc[u].wrote)

\* C11: whatever fails inside a pass of the background loop, the pass ends
\* and the loop reaches its sleep; and from every sleep that ends within the
\* hours of the model the loop starts another pass.
C11_LoopGoesOn ==
    /\ (pc["bg"] \in InPass \cup {"bg_loop"}) ~> (pc["bg"] = "bg_sleep")
    /\ (pc["bg"] = "bg_sleep" /\ loc["bg"].wake <= MaxSleepTime) ~> (pc["bg"] \in InPass)

\* C11 witness: the background thread is in a pass after it has slept, and
\* no pass before has succeeded, neither for energy nor for prices.
C11_Witness ==
    /\ pc["bg"] \in InPass
    /\ now >= SyncPeriod
    /\ _last_sync.energy = NULL
    /\ _last_sync.prices = NULL

\* C14: a call of get_token with a token cached and the time before its
\* expiry returns the cached token and exchanges no credentials; any other
\* call starts one exchange, which either fails, or caches the token it got
\* with the expiry 6 days after the call and returns that token; the cache
\* changes in no other step, and every request of api_get and api_put carries
\* a token that get_token returned.
C14_TokenCaching ==
    /\ [](\A t \in Threads : pc[t] = "requests_get" => loc[t].token \in Tokens)
    /\ [][\A t \in Threads :
            /\ (pc[t] = "api_get" /\ pc'[t] # "api_get") =>
                    IF /\ _token_cache.token # None
                       /\ _token_cache.expires # NULL
                       /\ now < _token_cache.expires[1]
                    THEN /\ pc'[t] = "requests_get"
                         /\ loc'[t].token = _token_cache.token
                         /\ _token_cache' = _token_cache
                    ELSE /\ pc'[t] = "token_post"
                         /\ loc'[t].tnow = now
                         /\ _token_cache' = _token_cache
            /\ (pc[t] = "token_post" /\ pc'[t] # "token_post") =>
                    \/ /\ pc'[t] = "requests_get"
                       /\ loc'[t].token \in Tokens
                       /\ _token_cache' = [token |-> loc'[t].token,
                                           expires |-> <<loc[t].tnow + 6 * 24>>]
                    \/ /\ pc'[t] \notin {"requests_get", "api_get"}
                       /\ _token_cache' = _token_cache
            /\ (pc[t] = pc'[t] /\ \A u \in Threads : pc[u] = "token_post" => pc'[u] = "token_post")
                    => _token_cache' = _token_cache]_vars

\* C14 witness: a thread is in the credential exchange while the cache holds
\* a token whose expiry has come, after a sleep of the background thread.
C14_Witness ==
    \E t \in Threads :
        /\ pc[t] = "token_post"
        /\ _token_cache.token # None
        /\ _token_cache.expires # NULL
        /\ now >= _token_cache.expires[1]

-----------------------------------------------------------------------------
(* Claims about the backfill command *)

\* C5: of every non-empty chunk of n readings that backfill_energy_data or
\* sync_recent_data fetched, what is passed on to the upsert is the chunk
\* without its first element: n - 1 readings, for every n >= 1.
C5_FirstDiscarded ==
    (cli.chunk.path \in {"backfill", "recent"} /\ cli.chunk.values # <<>>)
    => /\ cli.chunk.written = Tail(cli.chunk.values)
       /\ Len(cli.chunk.written) = Len(cli.chunk.values) - 1

\* C7: in every reachable state the table sync_status holds at most one row
\* per (sync_type, device_id), a NULL device_id included.
C7_OneStatusRowPerPair ==
    \A i, j \in DOMAIN sync_status :
        i # j => ~(/\ sync_status[i].sync_type = sync_status[j].sync_type
                   /\ sync_status[i].device_id = sync_status[j].device_id)

\* C12: with a store that does not fail by itself, the readings of every
\* chunk that was saved are in energy_readings, and backfill_energy_data ends
\* only after the last chunk of the last device: no failure of a chunk keeps
\* a later chunk or a later device from being attempted.
C12_ChunkFailureIsolated ==
    /\ [](cli.chunk.path = "backfill" /\ cli.chunk.saved
            => \A k \in DOMAIN cli.chunk.written :
                    \E d \in DeviceIds : HasRowOf(d, cli.chunk.written[k]))
    /\ [][(cli.pc = "chunk" /\ cli'.pc = "exit")
            => (cli.i = Len(cli.devices) /\ ~(cli.current_start < cli.end_date))]_vars

\* C13: when the chunk loop of a device has ended, with days >= 1 and
\* chunk_days >= 1, every calendar day from now - days through now lies in
\* exactly one of the windows requested for the device.
C13_WindowsPartition ==
    (/\ cli.pc = "chunk"
     /\ ~(cli.current_start < cli.end_date)
     /\ cli.days >= 1
     /\ cli.chunk_days >= 1)
    => \A d \in DayOf(cli.start_date)..DayOf(cli.end_date) :
            Cardinality({k \in DOMAIN cli.windows :
                            cli.windows[k][1] <= d /\ d <= cli.windows[k][2]}) = 1

-----------------------------------------------------------------------------
(* Claims about the price area and the aggregates *)

\* C15: the configured price area PRICE_AREA is the key of every price
\* operation: every stored price row is stored under it; a row of
\* get_hourly_stats carries the price of a row of that area in its hour, and
\* its cost is computed from it (no price and cost 0 when the area has no row
\* in the hour); a row of get_daily_summary has its cost computed from the
\* average of the area's rows of its date; and the price query of the
\* dashboard returns the rows of that area.
C15_ConfiguredAreaIsKey ==
    /\ \A j \in DOMAIN spot_prices : spot_prices[j].price_area = PRICE_AREA
    /\ \A row \in get_hourly_stats(None, NULL, NULL) :
        LET rows == {j \in DOMAIN spot_prices :
                        /\ spot_prices[j].price_area = PRICE_AREA
                        /\ HourOf(spot_prices[j].timestamp) = row.hour}
        IN  IF rows = {}
            THEN row.spot_price_ore = NULL /\ row.cost_sek = 0
            ELSE \E j \in rows :
                    /\ row.spot_price_ore = <<spot_prices[j].price_sek>>
                    /\ row.cost_sek = row.energy_kwh * spot_prices[j].price_sek
    /\ \A row \in get_daily_summary(None, NULL, NULL) :
        LET rows == {j \in DOMAIN spot_prices :
                        /\ spot_prices[j].price_area = PRICE_AREA
                        /\ DateOf(spot_prices[j].timestamp) = row.date}
        IN  row.cost_sek = IF rows = {} THEN <<0, 1>>
                           ELSE <<row.energy_kwh * SumPriceSek(spot_prices, rows), Cardinality(rows)>>
    /\ price_history(NULL, NULL) = get_spot_prices(NULL, NULL, PRICE_AREA)

\* C16: once a pass of the incremental energy sync has ended (sync_energy_data
\* has returned, with or without success), sync_status holds a row of sync
\* type "energy", and once a pass of the incremental price sync has ended it
\* holds a row of sync type "spot_prices".  (The claim also bounds last_sync of
\* that row from below by the start of the pass.)
C16_StatusRowAfterPass ==
    \A t \in Threads :
        /\ pc[t] \in {"se_done", "sp_fetch", "sp_finish", "sp_done"} =>
                \E i \in DOMAIN sync_status : sync_status[i].sync_type = "energy"
        /\ pc[t] = "sp_done" =>
                \E i \in DOMAIN sync_status : sync_status[i].sync_type = "spot_prices"

-----------------------------------------------------------------------------
(* Claims about the transaction of a save *)

\* C17: a batch is atomic.  While a save is under way, and after it has
\* failed part-way, the other connections read the table as it was before
\* the batch; and a step that changes what they read is the commit of a
\* batch whose elements are all well-formed, after which they read the table
\* with the whole batch upserted, never a prefix of it.
C17_BatchAtomic ==
    /\ [](txn.state # "none" => TableOf(txn.kind) = txn.before)
    /\ [][energy_readings' # energy_readings =>
            /\ txn.state = "loop" /\ txn' = NoTxn /\ txn.kind = "energy_readings"
            /\ ~SaveEnergyRaises(txn.batch, "ok")
            /\ energy_readings' = UpsertEnergy(energy_readings, txn.key[1], txn.key[2], txn.batch)]_vars
    /\ [][spot_prices' # spot_prices =>
            /\ txn.state = "loop" /\ txn' = NoTxn /\ txn.kind = "spot_prices"
            /\ ~SavePricesRaises(txn.batch, "ok")
            /\ spot_prices' = UpsertPrices(spot_prices, txn.batch, txn.key[1])]_vars

\* C17 witness: a save has raised on a malformed element after two valid
\* ones, into a table that already held rows; its rows are still pending in
\* the connection it left open.
C17_Witness ==
    /\ txn.state = "lingering"
    /\ txn.i = 3
    /\ txn.before # <<>>
    /\ txn.pending # txn.before

-----------------------------------------------------------------------------
(* Claims about the aggregates *)

\* The stored readings of a device in an hour, and on a date
ReadingsInHour(device_id, hour) ==
    {x \in (DOMAIN energy_readings) \X {0} :
        /\ energy_readings[x[1]].device_id = device_id
        /\ HourOf(energy_readings[x[1]].timestamp) = hour}
ReadingsOnDate(device_id, date) ==
    {x \in (DOMAIN energy_readings) \X {0} :
        /\ energy_readings[x[1]].device_id = device_id
        /\ DateOf(energy_readings[x[1]].timestamp) = date}

\* C18: for every (hour, device) that has stored readings and no price row
\* of the configured area in that hour, get_hourly_stats returns a row, and
\* every row it may return for the pair carries the energy of those
\* readings, no price and cost_sek = 0; the same for every (date, device) of
\* get_daily_summary and the price rows of the area on that date.
C18_MissingPriceZeroCost ==
    /\ \A i \in DOMAIN energy_readings :
        LET device_id == energy_readings[i].device_id
            hour == HourOf(energy_readings[i].timestamp)
            rows == {row \in get_hourly_stats(None, NULL, NULL) :
                        row.hour = hour /\ row.device_id = device_id}
        IN  (\A j \in DOMAIN spot_prices :
                spot_prices[j].price_area = PRICE_AREA => HourOf(spot_prices[j].timestamp) # hour) =>
                /\ rows # {}
                /\ \A row \in rows :
                    /\ row.energy_kwh = SumCurrentValue(energy_readings, ReadingsInHour(device_id, hour))
                    /\ row.spot_price_ore = NULL
                    /\ row.cost_sek = 0
    /\ \A i \in DOMAIN energy_readings :
        LET device_id == energy_readings[i].device_id
            date == DateOf(energy_readings[i].timestamp)
            rows == {row \in get_daily_summary(None, NULL, NULL) :
                        row.date = date /\ row.device_id = device_id}
        IN  (\A j \in DOMAIN spot_prices :
                spot_prices[j].price_area = PRICE_AREA => DateOf(spot_prices[j].timestamp) # date) =>
                /\ rows # {}
                /\ \A row \in rows :
                    /\ row.energy_kwh = SumCurrentValue(energy_readings, ReadingsOnDate(device_id, date))
                    /\ row.cost_sek[1] = 0

\* C18 witness: the aggregates have a row with energy and a cost above zero
\* and a row with energy and no price, hourly and daily, in a store that
\* holds a price of another area for the hour and the date without a price.
C18_Witness ==
    /\ \E row \in get_hourly_stats(None, NULL, NULL) : row.cost_sek > 0
    /\ \E row \in get_hourly_stats(None, NULL, NULL) :
            /\ row.energy_kwh > 0 /\ row.spot_price_ore = NULL /\ row.cost_sek = 0
            /\ \E j \in DOMAIN spot_prices :
                    spot_prices[j].price_area # PRICE_AREA /\ HourOf(spot_prices[j].timestamp) = row.hour
    /\ \E row \in get_daily_summary(None, NULL, NULL) : row.cost_sek[1] > 0
    /\ \E row \in get_daily_summary(None, NULL, NULL) :
            /\ row.energy_kwh > 0
            /\ row.cost_sek[1] = 0
            /\ \E j \in DOMAIN spot_prices :
                    spot_prices[j].price_area # PRICE_AREA /\ DateOf(spot_prices[j].timestamp) = row.date

\* The store with other values of delta_power and accumulated_value in every row
OtherDeltas(table) ==
    [i \in DOMAIN table |-> [table[i] EXCEPT !.delta_power = @ + 1, !.accumulated_value = @ + 2]]

\* C19: for every (hour, device), energy_kwh of get_hourly_stats is the sum
\* of current_value x 0.25 / 1000 over the stored readings of the device in
\* that hour; and a store that differs only in delta_power and
\* accumulated_value gives the same hourly and daily rows (energy_kwh and
\* cost_sek included).
C19_EnergyFromPower ==
    /\ \A row \in get_hourly_stats(None, NULL, NULL) :
            row.energy_kwh = SumCurrentValue(energy_readings, ReadingsInHour(row.device_id, row.hour))
    /\ HourlyStats(OtherDeltas(energy_readings), spot_prices, None, NULL, NULL)
            = get_hourly_stats(None, NULL, NULL)
    /\ DailySummary(OtherDeltas(energy_readings), spot_prices, None, NULL, NULL)
            = get_daily_summary(None, NULL, NULL)

-----------------------------------------------------------------------------
(* Claims about the spot_prices table *)

PriceRowsWithKey(rows, key) ==
    {i \in DOMAIN rows : rows[i].timestamp = key[1] /\ rows[i].price_area = key[2]}

\* C20: whatever save_spot_prices calls were made, the table spot_prices
\* holds at most one row per (timestamp, price_area); a key that was never
\* upserted has no row, and the row of a key that was has price_sek equal to
\* 100 times the SEK_per_kWh of the most recent upsert of the key, however
\* often the same value was upserted.
C20_PriceUpsert ==
    \A key \in PriceKeys :
        LET rows == PriceRowsWithKey(spot_prices, key)
        IN  /\ Cardinality(rows) <= 1
            /\ lastPriceUpsert[key] = <<>> => rows = {}
            /\ lastPriceUpsert[key] # <<>> =>
                    /\ rows # {}
                    /\ \A i \in rows : spot_prices[i].price_sek = 100 * lastPriceUpsert[key].sek

\* C20 witness: a key has been upserted twice in a row with the same price,
\* and the key of the same timestamp in the other area was upserted with
\* another price.
C20_Witness ==
    \E key \in PriceKeys, other \in PriceKeys :
        /\ lastPriceUpsert[key] # <<>>
        /\ lastPriceUpsert[key].n >= 2
        /\ other[1] = key[1]
        /\ other[2] # key[2]
        /\ lastPriceUpsert[other] # <<>>
        /\ lastPriceUpsert[other].sek # lastPriceUpsert[key].sek

-----------------------------------------------------------------------------
(* Claims about what the sync passes leave behind *)

EnergyKeysOf(table) == {<<table[i].device_id, table[i].timestamp>> : i \in DOMAIN table}
SpotKeysOf(table) == {<<table[i].timestamp, table[i].price_area>> : i \in DOMAIN table}

\* C21: no step of the service, in a pass that succeeds, partly succeeds or
\* fails, removes a key: every (device_id, timestamp) of energy_readings and
\* every (timestamp, price_area) of spot_prices is still stored after the
\* step; and in every state the readers return a row for every stored key.
C21_NeverDeleted ==
    /\ [][/\ EnergyKeysOf(energy_readings) \subseteq EnergyKeysOf(energy_readings')
          /\ SpotKeysOf(spot_prices) \subseteq SpotKeysOf(spot_prices')]_vars
    /\ [](/\ EnergyKeysOf(energy_readings) \subseteq EnergyKeysOf(get_energy_readings(None, NULL, NULL))
          /\ \A area \in PriceAreas :
                {k \in SpotKeysOf(spot_prices) : k[2] = area}
                    \subseteq SpotKeysOf(get_spot_prices(NULL, NULL, area)))

\* C21 witness: an energy pass has just failed and a price pass has saved
\* nothing, in a store that holds readings and prices of earlier passes.
C21_Witness ==
    /\ energy_readings # <<>>
    /\ spot_prices # <<>>
    /\ _last_sync.energy_success = FALSE
    /\ _last_sync.energy # NULL
    /\ \E t \in Threads : pc[t] = "sp_done" /\ loc[t].total_saved = 0

\* C22: a pass of sync_energy_data ends with energy_success True exactly
\* when it ends after its loop, that is when no call of the pass (the token
\* exchange, the device list, an interval fetch, a save) raised into the
\* handler of the function; this holds also when the pass saved nothing.
C22_EnergySuccessIffNoException ==
    [][\A t \in Threads :
        (pc[t] # "se_done" /\ pc'[t] = "se_done") =>
            /\ _last_sync'.energy_success = (pc[t] = "se_finish")
            /\ pc[t] = "se_finish" =>
                    /\ loc[t].i > Len(loc[t].devices)
                    /\ \A k \in DOMAIN loc[t].devices : loc[t].fetched[loc[t].devices[k].Id] = "ok"
                    /\ ~loc[t].storeFailed
            /\ pc[t] # "se_finish" => pc[t] \in {"token_post", "requests_get"}]_vars

\* C22 witness: a pass over two devices that both answered no values has
\* ended, with nothing saved and energy_success True.
C22_Witness ==
    \E t \in Threads :
        /\ pc[t] = "se_done"
        /\ Len(loc[t].devices) = 2
        /\ \A d \in DeviceIds : loc[t].fetched[d] = "ok" /\ loc[t].values[d] = <<>>
        /\ loc[t].total_saved = 0
        /\ ~loc[t].savedAny
        /\ _last_sync.energy_success = TRUE

-----------------------------------------------------------------------------
(* Claims about the chunk loop of the backfill command *)

\* C23: with days >= 1 and chunk_days >= 1, every interval request of
\* backfill_energy_data covers at most chunk_days calendar days: from the
\* first day of its window (from 00:00:00) to the last (to 23:59:59).
C23_ChunkLength ==
    (cli.pc = "chunk" /\ cli.days >= 1 /\ cli.chunk_days >= 1) =>
        \A k \in DOMAIN cli.windows :
            cli.windows[k][2] - cli.windows[k][1] + 1 <= cli.chunk_days

\* C24: for every days >= 0 and chunk_days >= 0, every iteration of the
\* chunk loop moves current_start forward, whatever the fetch and the save
\* did; a device gets at most days + 1 requests; and the command, once it
\* has started backfill_energy_data, reaches its end.
C24_BackfillTerminates ==
    /\ [][(cli.pc = "chunk" /\ cli'.pc = "chunk" /\ cli'.i = cli.i) =>
            cli'.current_start > cli.current_start]_vars
    /\ [](cli.pc = "chunk" => Len(cli.windows) <= cli.days + 1)
    /\ (cli.pc \in {"devices", "chunk"}) ~> (cli.pc = "exit")

\* C24 witness: the command runs with chunk_days = 0 and is at the second
\* device, after a first device whose requests all failed or were saved.
C24_Witness ==
    /\ cli.pc = "chunk"
    /\ cli.chunk_days = 0
    /\ cli.days >= 1
    /\ cli.i = 2
    /\ Len(cli.windows) >= 2

-----------------------------------------------------------------------------
(* Claims about the in-memory sync state and the token cache *)

\* C25: a pass of sync_energy_data that ends in its handler changes
\* energy_success to False and nothing else of _last_sync; a pass of
\* sync_spot_prices that ends with prices_success False changes nothing else
\* of _last_sync; and the timestamp of a sync type changes only at the end of
\* a successful pass of that type, to the time of that end.
C25_FailedPassKeepsTimestamp ==
    [][/\ \A t \in Threads :
            /\ (pc[t] \in {"token_post", "requests_get"} /\ pc'[t] = "se_done") =>
                    _last_sync' = [_last_sync EXCEPT !.energy_success = FALSE]
            /\ (pc[t] = "sp_finish" /\ pc'[t] = "sp_done" /\ ~_last_sync'.prices_success) =>
                    _last_sync' = [_last_sync EXCEPT !.prices_success = FALSE]
            /\ (pc[t] = "se_finish" /\ pc'[t] = "se_done") =>
                    _last_sync' = [_last_sync EXCEPT !.energy = <<now>>, !.energy_success = TRUE]
            /\ (pc[t] = "sp_finish" /\ pc'[t] = "sp_done" /\ _last_sync'.prices_success) =>
                    _last_sync' = [_last_sync EXCEPT !.prices = <<now>>, !.prices_success = TRUE]
       /\ _last_sync'.energy # _last_sync.energy =>
            \E t \in Threads : pc[t] = "se_finish" /\ pc'[t] = "se_done"
       /\ _last_sync'.prices # _last_sync.prices =>
            \E t \in Threads : pc[t] = "sp_finish" /\ pc'[t] = "sp_done"
                                 /\ loc[t].total_saved > 0]_vars

\* C25 witness: both sync types have succeeded at an earlier time and their
\* latest passes failed; the timestamps are those of the earlier passes.
C25_Witness ==
    /\ _last_sync.energy # NULL /\ _last_sync.energy[1] < now
    /\ _last_sync.prices # NULL /\ _last_sync.prices[1] < now
    /\ ~_last_sync.energy_success
    /\ ~_last_sync.prices_success
    /\ \E t \in Threads : pc[t] = "sp_done" /\ loc[t].errors > 0

\* C26: an exchange of get_token that fails changes neither field of the
\* token cache and ends the caller's call in its error path (the handler of
\* sync_energy_data, the 502 of the switch route, the end of the backfill
\* command); the cache changes only by a successful exchange; and a call of
\* get_token returns the cached token if it is still valid and otherwise
\* attempts the exchange.
C26_FailedExchangeKeepsCache ==
    [][/\ \A t \in Threads :
            /\ (pc[t] = "token_post" /\ pc'[t] # "token_post") =>
                \/ /\ pc'[t] = "requests_get"
                   /\ _token_cache'.token \in Tokens
                   /\ _token_cache'.expires = <<loc[t].tnow + TokenLifetime>>
                   /\ loc'[t].token = _token_cache'.token
                \/ /\ pc'[t] \in {"se_done", "req_idle"}
                   /\ _token_cache' = _token_cache
                   /\ pc'[t] = "se_done" => ~_last_sync'.energy_success
            /\ (pc[t] = "api_get" /\ pc'[t] # "api_get") =>
                /\ _token_cache' = _token_cache
                /\ IF TokenValid(_token_cache, now)
                   THEN pc'[t] = "requests_get" /\ loc'[t].token = _token_cache.token
                   ELSE pc'[t] = "token_post"
       /\ _token_cache' # _token_cache =>
            \E t \in Threads : pc[t] = "token_post" /\ pc'[t] = "requests_get"
       /\ backfill_token_cache' # backfill_token_cache =>
            \/ cli.pc = "exit" /\ backfill_token_cache' = NoToken
            \/ /\ ~TokenValid(backfill_token_cache, now)
               /\ backfill_token_cache'.token \in Tokens
               /\ backfill_token_cache'.expires = <<now + TokenLifetime>>
       /\ (cli.pc \in {"devices", "recent_devices"} /\ cli' # cli
            /\ ~TokenValid(backfill_token_cache', now)) =>
            /\ backfill_token_cache' = backfill_token_cache
            /\ cli'.pc = "exit"]_vars

\* C26 witness: a pass of sync_energy_data has ended in its handler before it
\* had a device list, at a time when the cache holds a token that has
\* expired: the exchange was attempted, and the expired token is still there.
C26_Witness ==
    /\ \E t \in Threads : pc[t] = "se_done" /\ loc[t].devices = <<>>
    /\ ~_last_sync.energy_success
    /\ _token_cache.token \in Tokens
    /\ ~TokenValid(_token_cache, now)

-----------------------------------------------------------------------------
(* Claims about the price join of the hourly statistics *)

\* The rows of get_hourly_stats as they would be with an empty price table
HourlyStatsWithoutPrices == HourlyStats(energy_readings, <<>>, None, NULL, NULL)

SameRatio(a, b) == a[1] * b[2] = b[1] * a[2]

\* C27: get_hourly_stats has the same (hour, device) rows whatever the price
\* table holds, and each row has the energy_kwh and the active_ratio it has
\* with an empty price table, also when several price rows of the area fall
\* into the hour.
C27_EnergyIndependentOfPrices ==
    /\ \A row \in get_hourly_stats(None, NULL, NULL) :
            \E base \in HourlyStatsWithoutPrices :
                /\ base.hour = row.hour /\ base.device_id = row.device_id
                /\ base.energy_kwh = row.energy_kwh
                /\ SameRatio(base.active_ratio, row.active_ratio)
    /\ \A base \in HourlyStatsWithoutPrices :
            \E row \in get_hourly_stats(None, NULL, NULL) :
                base.hour = row.hour /\ base.device_id = row.device_id

====
